---- MODULE Spec2Model ----
(***************************************************************************)
(* A model of the gorm sharding plugin: the configuration compiler         *)
(* (Sharding.compile), the statement resolver (Sharding.resolve and its    *)
(* helpers), the primary-key generators, and the intercepting connection   *)
(* pool (ConnPool.ExecContext / QueryContext / QueryRowContext).           *)
(*                                                                         *)
(* Strings whose characters matter (suffixes, numeric literals, decimal    *)
(* arguments) are sequences of one-character strings, so that formatting   *)
(* (fmt.Sprintf) and parsing (strconv.Atoi) are computed, not assumed.     *)
(* A table name is a sequence whose first element is the logical name and  *)
(* whose remaining elements are the characters of the suffix.              *)
(***************************************************************************)
EXTENDS Integers, Sequences, FiniteSets, TLC

VARIABLES
    registration,   \* Sharding._config and Sharding._tables, set by Register
    phase,          \* "registered" | "initialized" | "failed" : plugin lifecycle
    configs,        \* Sharding.configs : table name -> compiled Config
    conns,          \* Sharding.readConns / writeConns : table name -> sequences of pools
    querys,         \* Sharding.querys["last_query"]; NoQuery when never stored
    seqs,           \* datastore sequences: sequence name -> last value handed out
    snowflakeNodes, \* Sharding.snowflakeNodes: index -> [time, step] of the node
    now,            \* the millisecond clock read by snowflake.Node.Generate
    sent,           \* statements the latest call executed, in order
    call,           \* the latest operation: its inputs and what it returned
    ConnPool,       \* Sharding.ConnPool: the wrapper switchConn stored last (nil at first)
    statements      \* the gorm operations in flight: operation -> db.Statement

vars == <<registration, phase, configs, conns, querys, seqs, snowflakeNodes, now, sent, call,
          ConnPool, statements>>

(***************************************************************************)
(* Bounds of the model (not program constants).                            *)
(***************************************************************************)
MaxNow == 2         \* the clock runs over 1..MaxNow
MaxSeq == 2         \* a sequence hands out at most MaxSeq values
MaxStep == 1        \* a snowflake node generates at most MaxStep+1 ids per ms
MaxRows == 2        \* value rows of an INSERT
MaxOperations == 3  \* gorm operations in flight at the same time

(***************************************************************************)
(* Program constants.                                                      *)
(***************************************************************************)
PKSnowflake == 0
PKPGSequence == 1
PKMySQLSequence == 2
PKCustom == 3
SnowflakeNodeCount == 1024      \* make([]*snowflake.Node, 1024)
MaxSnowflakeShards == 1024      \* NumberOfShards > 1024 panics with Snowflake
NodeShift == 12                 \* snowflake: StepBits
TimeShift == 22                 \* snowflake: NodeBits + StepBits
NodeMax == 1023                 \* snowflake: -1 ^ (-1 << NodeBits)
StepMask == 4095                \* snowflake: -1 ^ (-1 << StepBits)

Nil == "nil"
ErrMissingShardingKey == "sharding key or id required, and use operator ="
ErrInvalidID == "invalid id format"
ErrInsertDiffSuffix == "can not insert different suffix table in one query "
ErrNotImplemented == "sqlparser: not implemented"
ErrIDNotInt64 == "ID should be int64 type"
ErrParseInt == "strconv.ParseInt: invalid syntax"
ErrColumnMismatch == "column names and expressions mismatch"
ErrNoAlgorithmByPK == "there is not sharding key and ShardingAlgorithmByPrimaryKey is not configured"
ErrDefaultAlgorithmType == "default algorithm only support integer and string column"
ErrSuffixNotListed == "table suffix is not in ShardingSuffixs"

NoTable == <<>>
NoQuery == [src |-> "none"]
NoPool == "nil"

(***************************************************************************)
(* strconv and fmt                                                         *)
(***************************************************************************)
Digits == <<"0", "1", "2", "3", "4", "5", "6", "7", "8", "9">>

IsDigit(c) == \E d \in 1..10 : Digits[d] = c

DigitVal(c) == (CHOOSE d \in 1..10 : Digits[d] = c) - 1

RECURSIVE DigitsVal(_, _)
DigitsVal(s, acc) ==
    IF s = <<>> THEN acc ELSE DigitsVal(Tail(s), acc * 10 + DigitVal(Head(s)))

\* strconv.Atoi / strconv.ParseInt(s, 10, 64): optional sign, then one or
\* more decimal digits; anything else is a syntax error.
Atoi(s) ==
    LET signed == s # <<>> /\ Head(s) \in {"+", "-"}
        body == IF signed THEN Tail(s) ELSE s
        ok == body # <<>> /\ \A i \in 1..Len(body) : IsDigit(body[i])
        mag == IF ok THEN DigitsVal(body, 0) ELSE 0
    IN  [ok |-> ok,
         v |-> IF signed /\ Head(s) = "-" THEN 0 - mag ELSE mag]

RECURSIVE UDec(_)
UDec(n) == IF n < 10 THEN <<Digits[n + 1]>> ELSE UDec(n \div 10) \o <<Digits[(n % 10) + 1]>>

\* strconv.FormatInt(n, 10)
FormatInt(n) == IF n < 0 THEN <<"-">> \o UDec(0 - n) ELSE UDec(n)

\* fmt.Sprintf("_%0<w>d", n): the sign counts in the width, zeros follow it.
\* w = 0 stands for the unset tableFormat "", for which Sprintf reports the
\* extra operand.
Sprintf(w, n) ==
    IF w = 0 THEN <<"%!(EXTRA int=">> \o FormatInt(n) \o <<")">>
    ELSE LET d == UDec(IF n < 0 THEN 0 - n ELSE n)
             sign == IF n < 0 THEN <<"-">> ELSE <<>>
             pad == w - Len(d) - Len(sign)
         IN  <<"_">> \o sign \o [i \in 1..(IF pad > 0 THEN pad ELSE 0) |-> "0"] \o d

\* Go's % on int: the result has the sign of the dividend.
GoRem(a, n) == IF a >= 0 THEN a % n ELSE 0 - ((0 - a) % n)

\* crc32.ChecksumIEEE of the non-numeric strings the model uses.
ChecksumIEEE(s) ==
    CASE s = <<"a", "b", "c">> -> 891568578
      [] s = <<"1", "e", "2">> -> 179673303
      [] s = <<"i", "P", "a", "d">> -> 1039120002
      [] OTHER -> 0

\* strings.Replace(s, "_", "", 1)
RemoveFirstUnderscore(s) ==
    IF \E i \in 1..Len(s) : s[i] = "_"
    THEN LET i == CHOOSE j \in 1..Len(s) : s[j] = "_" /\ \A k \in 1..(j - 1) : s[k] # "_"
         IN  SubSeq(s, 1, i - 1) \o SubSeq(s, i + 1, Len(s))
    ELSE s

\* slices.Index(list, x): first position (from 0) or -1
SlicesIndex(list, x) ==
    IF \E i \in 1..Len(list) : list[i] = x
    THEN (CHOOSE i \in 1..Len(list) : list[i] = x /\ \A k \in 1..(i - 1) : list[k] # x) - 1
    ELSE 0 - 1

(***************************************************************************)
(* Go values (bound arguments) and sqlparser expressions                   *)
(***************************************************************************)
NilVal == [t |-> "nil", v |-> 0, s |-> <<>>]
GoInt(n) == [t |-> "int", v |-> n, s |-> <<>>]
GoInt64(n) == [t |-> "int64", v |-> n, s |-> <<>>]
GoString(str) == [t |-> "string", v |-> 0, s |-> str]
GoFloat64(n) == [t |-> "float64", v |-> n, s |-> <<>>]

\* *sqlparser.BindExpr together with args[expr.Pos], *sqlparser.StringLit,
\* *sqlparser.NumberLit, and any other expression (here a call)
BindExpr(arg) == [e |-> "BindExpr", arg |-> arg, Value |-> <<>>]
StringLit(str) == [e |-> "StringLit", arg |-> NilVal, Value |-> str]
NumberLit(str) == [e |-> "NumberLit", arg |-> NilVal, Value |-> str]
CallExpr == [e |-> "Call", arg |-> NilVal, Value |-> <<>>]

(***************************************************************************)
(* Config and Sharding.compile                                             *)
(*                                                                         *)
(* A function-valued field of Config holds the name of the function:       *)
(* "nil" when unset, "default" for the closure compile installs, and a     *)
(* name of a caller-supplied function otherwise.                           *)
(***************************************************************************)

\* c.tableFormat chosen from NumberOfShards; 0 when none of the branches
\* assigns it.
TableFormat(n) ==
    IF n < 10 THEN 1
    ELSE IF n < 100 THEN 2
    ELSE IF n < 1000 THEN 3
    ELSE IF n < 10000 THEN 4
    ELSE 0

\* the ShardingAlgorithm closure installed by compile when none is configured
DefaultShardingAlgorithm(c, value) ==
    LET parsed == IF value.t = "string" THEN Atoi(value.s) ELSE [ok |-> FALSE, v |-> 0]
        id == CASE value.t = "int" -> value.v
                [] value.t = "int64" -> value.v
                [] value.t = "string" ->
                       IF parsed.ok THEN parsed.v ELSE ChecksumIEEE(value.s)
                [] OTHER -> 0
    IN  IF value.t \in {"int", "int64", "string"}
        THEN [suffix |-> Sprintf(c.tableFormat, GoRem(id, c.NumberOfShards)), err |-> Nil]
        ELSE [suffix |-> <<>>, err |-> ErrDefaultAlgorithmType]

\* a caller-supplied ShardingAlgorithm: the parity of an integer key
ParityShardingAlgorithm(value) ==
    IF value.t \in {"int", "int64"}
    THEN [suffix |-> IF value.v % 2 = 0 THEN <<"_", "e">> ELSE <<"_", "o">>, err |-> Nil]
    ELSE [suffix |-> <<>>, err |-> "invalid user_id"]

ShardingAlgorithm(c, value) ==
    IF c.ShardingAlgorithm = "default"
    THEN DefaultShardingAlgorithm(c, value)
    ELSE ParityShardingAlgorithm(value)

\* the ShardingSuffixs closure installed by compile, and the caller-supplied
\* one that goes with the parity algorithm
ShardingSuffixs(c) ==
    IF c.ShardingSuffixs = "default"
    THEN IF \E i \in 0..(c.NumberOfShards - 1) :
                ShardingAlgorithm(c, GoInt(i)).err # Nil
         THEN <<>>
         ELSE [i \in 1..c.NumberOfShards |->
                  ShardingAlgorithm(c, GoInt(i - 1)).suffix]
    ELSE << <<"_", "e">>, <<"_", "o">> >>

\* a Node() that shifts by the width of node and step together
SnowflakeNodeTimeShift(id) == (id \div (2 ^ TimeShift)) % (NodeMax + 1)

\* snowflake.ParseInt64(id).Node(): (id & nodeMask) >> nodeShift
SnowflakeNode(id) == (id \div (2 ^ NodeShift)) % (NodeMax + 1)

\* the ShardingAlgorithmByPrimaryKey closure installed by compile
ShardingAlgorithmByPrimaryKey(c, id) == Sprintf(c.tableFormat, SnowflakeNode(id))

\* The second loop of compile for one table's Config.
compileConfig(c) ==
    IF c.NumberOfShards > MaxSnowflakeShards /\ c.PrimaryKeyGenerator = PKSnowflake
    THEN [outcome |-> "panic", err |-> "Snowflake NumberOfShards should less than 1024", config |-> c]
    ELSE IF c.PrimaryKeyGenerator = PKCustom /\ c.PrimaryKeyGeneratorFn = "nil"
    THEN [outcome |-> "error", err |-> "PrimaryKeyGeneratorFn is required when use PKCustom", config |-> c]
    ELSE IF c.PrimaryKeyGenerator \notin {PKSnowflake, PKPGSequence, PKCustom}
    THEN [outcome |-> "error", err |-> "PrimaryKeyGenerator can only be one of PKSnowflake, PKPGSequence and PKCustom", config |-> c]
    ELSE IF c.ShardingAlgorithm = "nil" /\ c.NumberOfShards = 0
    THEN [outcome |-> "error", err |-> "specify NumberOfShards or ShardingAlgorithm", config |-> c]
    ELSE
      LET c1 == [c EXCEPT !.PrimaryKeyGeneratorFn =
                     CASE c.PrimaryKeyGenerator = PKSnowflake -> "genSnowflakeKey"
                       [] c.PrimaryKeyGenerator = PKPGSequence -> "genPostgreSQLSequenceKey"
                       [] OTHER -> @]
          c2 == IF c1.ShardingAlgorithm = "nil"
                THEN [c1 EXCEPT !.tableFormat = TableFormat(c1.NumberOfShards),
                                !.ShardingAlgorithm = "default"]
                ELSE c1
          c3 == IF c2.ShardingSuffixs = "nil"
                THEN [c2 EXCEPT !.ShardingSuffixs = "default"]
                ELSE c2
          c4 == IF c3.ShardingAlgorithmByPrimaryKey = "nil" /\ c3.PrimaryKeyGenerator = PKSnowflake
                THEN [c3 EXCEPT !.ShardingAlgorithmByPrimaryKey = "default"]
                ELSE c3
      IN  [outcome |-> "ok", err |-> Nil, config |-> c4]

pgSeqName(table) == <<"gorm_sharding_">> \o table \o <<"_id_seq">>

(***************************************************************************)
(* Primary-key generators.  gen = [seqs, nodes, now, sent] is the          *)
(* generator state a call reads and leaves behind; sent lists the          *)
(* statements the generators executed on the datastore.                    *)
(***************************************************************************)
NodeState(nodes, i) == IF i \in DOMAIN nodes THEN nodes[i] ELSE [time |-> 0, step |-> 0]

\* s.snowflakeNodes[index].Generate().Int64(); indexing outside the array
\* panics
genSnowflakeKey(gen, index) ==
    IF index < 0 \/ index >= SnowflakeNodeCount
    THEN [id |-> 0, gen |-> gen, panic |-> TRUE]
    ELSE LET n == NodeState(gen.nodes, index)
             step == IF gen.now = n.time THEN (n.step + 1) % (StepMask + 1) ELSE 0
             nodes == [i \in DOMAIN gen.nodes \cup {index} |->
                          IF i = index THEN [time |-> gen.now, step |-> step]
                          ELSE gen.nodes[i]]
         IN  [id |-> gen.now * (2 ^ TimeShift) + index * (2 ^ NodeShift) + step,
              gen |-> [gen EXCEPT !.nodes = nodes],
              panic |-> FALSE]

\* a generator that hands out the counter's value before the increment
genPostgreSQLSequenceKeyCurrval(gen, tableName) ==
    LET name == pgSeqName(tableName)
    IN  IF name \notin DOMAIN gen.seqs
        THEN [id |-> 0, gen |-> gen, panic |-> TRUE]
        ELSE [id |-> gen.seqs[name],
              gen |-> [gen EXCEPT !.seqs[name] = @ + 1,
                                  !.sent = Append(@, [conn |-> "db", fn |-> "Raw",
                                                      text |-> <<"SELECT nextval">> \o name])],
              panic |-> FALSE]

\* SELECT nextval('<sequence of tableName>'); a datastore error panics
genPostgreSQLSequenceKey(gen, tableName) ==
    LET name == pgSeqName(tableName)
    IN  IF name \notin DOMAIN gen.seqs
        THEN [id |-> 0, gen |-> gen, panic |-> TRUE]
        ELSE [id |-> gen.seqs[name] + 1,
              gen |-> [gen EXCEPT !.seqs[name] = @ + 1,
                                  !.sent = Append(@, [conn |-> "db", fn |-> "Raw",
                                                      text |-> <<"SELECT nextval">> \o name])],
              panic |-> FALSE]

\* a caller-supplied PrimaryKeyGeneratorFn with a counter of its own: it
\* returns an id the first time it is called and 0 afterwards
callerCounter == <<"caller counter">>
FirstId == 7001
firstOnlyKey(gen) ==
    IF callerCounter \in DOMAIN gen.seqs /\ gen.seqs[callerCounter] > 0
    THEN [id |-> 0, gen |-> gen, panic |-> FALSE]
    ELSE [id |-> FirstId,
          gen |-> [gen EXCEPT !.seqs = [n \in DOMAIN gen.seqs \cup {callerCounter} |->
                                           IF n = callerCounter THEN 1 ELSE gen.seqs[n]]],
          panic |-> FALSE]

\* r.PrimaryKeyGeneratorFn(tblIdx)
PrimaryKeyGeneratorFn(r, gen, tblIdx) ==
    CASE r.PrimaryKeyGeneratorFn = "genSnowflakeKey" -> genSnowflakeKey(gen, tblIdx)
      [] r.PrimaryKeyGeneratorFn = "genPostgreSQLSequenceKey" ->
             genPostgreSQLSequenceKey(gen, r.seqTable)
      [] r.PrimaryKeyGeneratorFn = "firstOnly" -> firstOnlyKey(gen)
      [] OTHER -> [id |-> 0, gen |-> gen, panic |-> FALSE]

(***************************************************************************)
(* Sharding.resolve and its helpers                                        *)
(***************************************************************************)
getSuffix(value, id, keyFind, r) ==
    IF keyFind
    THEN ShardingAlgorithm(r, value)
    ELSE IF r.ShardingAlgorithmByPrimaryKey = "nil"
         THEN [suffix |-> <<>>, err |-> ErrNoAlgorithmByPK]
         ELSE [suffix |-> ShardingAlgorithmByPrimaryKey(r, id), err |-> Nil]

\* a reading of the expression that takes anything else for the integer 0
keyValueLenient(expr) ==
    CASE expr.e = "BindExpr" -> [value |-> expr.arg, err |-> Nil]
      [] expr.e = "StringLit" -> [value |-> GoString(expr.Value), err |-> Nil]
      [] expr.e = "NumberLit" -> [value |-> GoString(expr.Value), err |-> Nil]
      [] OTHER -> [value |-> GoInt64(0), err |-> Nil]

\* the value an expression bound to the sharding key stands for
keyValue(expr) ==
    CASE expr.e = "BindExpr" -> [value |-> expr.arg, err |-> Nil]
      [] expr.e = "StringLit" -> [value |-> GoString(expr.Value), err |-> Nil]
      [] expr.e = "NumberLit" -> [value |-> GoString(expr.Value), err |-> Nil]
      [] OTHER -> [value |-> NilVal, err |-> ErrNotImplemented]

insertValue(key, names, exprs) ==
    IF Len(names) # Len(exprs)
    THEN [value |-> NilVal, id |-> 0, keyFind |-> FALSE, err |-> ErrColumnMismatch]
    ELSE IF \E i \in 1..Len(names) : names[i] = key
    THEN LET i == CHOOSE j \in 1..Len(names) :
                      names[j] = key /\ \A k \in 1..(j - 1) : names[k] # key
             kv == keyValue(exprs[i])
         IN  IF kv.err # Nil
             THEN [value |-> NilVal, id |-> 0, keyFind |-> FALSE, err |-> kv.err]
             ELSE [value |-> kv.value, id |-> 0, keyFind |-> TRUE, err |-> Nil]
    ELSE [value |-> NilVal, id |-> 0, keyFind |-> FALSE, err |-> ErrMissingShardingKey]

\* a visitor that takes any comparison on the sharding key or on id,
\* whatever its operator
visitBinaryExprAnyOp(key, n, st) ==
    IF n.X = key
    THEN [st EXCEPT !.keyFind = TRUE, !.value = keyValue(n.Y).value]
    ELSE IF n.X = "id" /\ n.Y.e = "BindExpr" /\ n.Y.arg.t = "int64"
    THEN [st EXCEPT !.id = n.Y.arg.v]
    ELSE st

\* the visitor of nonInsertValue applied to one comparison X op Y whose X is
\* an identifier
visitBinaryExpr(key, n, st) ==
    IF n.X = key /\ n.Op = "="
    THEN LET kv == keyValue(n.Y)
         IN  IF kv.err # Nil
             THEN [st EXCEPT !.keyFind = TRUE, !.err = kv.err]
             ELSE [st EXCEPT !.keyFind = TRUE, !.value = kv.value]
    ELSE IF n.X = "id" /\ n.Op = "="
    THEN CASE n.Y.e = "BindExpr" ->
                  IF n.Y.arg.t = "int64"
                  THEN [st EXCEPT !.id = n.Y.arg.v]
                  ELSE [st EXCEPT !.id = 0, !.err = ErrIDNotInt64]
           [] n.Y.e = "NumberLit" ->
                  LET p == Atoi(n.Y.Value)
                  IN  IF p.ok THEN [st EXCEPT !.id = p.v]
                      ELSE [st EXCEPT !.id = 0, !.err = ErrParseInt]
           [] OTHER -> [st EXCEPT !.err = ErrInvalidID]
    ELSE st

\* sqlparser.Walk over the filter: every node in pre-order, stopping at the
\* first error the visitor returns.  Only comparisons change the state; the
\* X of an AND/OR node is not an identifier.
RECURSIVE Walk(_, _, _)
Walk(key, node, st) ==
    IF st.err # Nil THEN st
    ELSE CASE node.k = "cmp" -> visitBinaryExpr(key, node, st)
           [] node.k \in {"AND", "OR"} -> Walk(key, node.Y, Walk(key, node.X, st))
           [] node.k = "NOT" -> Walk(key, node.X, st)
           [] OTHER -> st

nonInsertValue(key, condition) ==
    LET st == Walk(key, condition,
                   [value |-> NilVal, id |-> 0, keyFind |-> FALSE, err |-> Nil])
    IN  IF st.err # Nil THEN st
        ELSE IF ~st.keyFind /\ st.id = 0
        THEN [value |-> NilVal, id |-> 0, keyFind |-> FALSE, err |-> ErrMissingShardingKey]
        ELSE st

\* stmt.String(): the text the parser renders for a statement.  The text a
\* caller passes in is [src |-> "input"]; a rendering is never that text.
String(stmt) == [src |-> "String()", parses |-> TRUE, stmt |-> stmt]

\* the statement kind resolve hands to the connection pool
stmtTypeOf(stmt) == stmt.type

\* One pass of the loop over insertExpressions, from row i on.  acc carries
\* suffix, insertStmt.ColumnNames (cols), insertStmt.Expressions (rows),
\* the generator state, and the error or panic that ends the loop.  The
\* steps of a pass follow the statements of the loop body: the row's value,
\* its suffix, the table index of the suffix, the generated id.
RECURSIVE insertRows(_, _, _, _)
insertRows(r, insertNames, i, acc) ==
    LET insertValues == acc.rows[i]
        withID(suffix, g) ==
            IF g.panic
            THEN [acc EXCEPT !.suffix = suffix, !.panic = TRUE]
            ELSE LET fillID == (\A j \in 1..Len(insertNames) : insertNames[j] # "id")
                               /\ g.id # 0
                 IN  insertRows(r, insertNames, i + 1,
                         [acc EXCEPT
                            !.suffix = suffix,
                            !.gen = g.gen,
                            !.cols = IF fillID THEN Append(insertNames, "id") ELSE @,
                            !.rows[i] = IF fillID
                                        THEN Append(insertValues, NumberLit(FormatInt(g.id)))
                                        ELSE @])
        withIndex(suffix, suffixWord, tblIdx) ==
            IF tblIdx.v = 0 - 1 /\ ~tblIdx.ok
            THEN [acc EXCEPT !.suffix = suffix, !.err = ErrSuffixNotListed]
            ELSE withID(suffix, PrimaryKeyGeneratorFn(r, acc.gen, tblIdx.v))
        withWord(suffix, suffixWord, parsed) ==
            withIndex(suffix, suffixWord,
                      IF parsed.ok THEN parsed
                      ELSE [ok |-> FALSE, v |-> SlicesIndex(ShardingSuffixs(r), suffixWord)])
        withSuffix(suffix, suffixWord) == withWord(suffix, suffixWord, Atoi(suffixWord))
        withSub(sub) ==
            IF sub.err # Nil THEN [acc EXCEPT !.err = sub.err]
            ELSE IF acc.suffix # <<>> /\ acc.suffix # sub.suffix
            THEN [acc EXCEPT !.err = ErrInsertDiffSuffix]
            ELSE withSuffix(sub.suffix, RemoveFirstUnderscore(sub.suffix))
        withValue(iv) ==
            IF iv.err # Nil THEN [acc EXCEPT !.err = iv.err]
            ELSE withSub(getSuffix(iv.value, iv.id, iv.keyFind, r))
    IN  IF i > Len(acc.rows) \/ acc.err # Nil \/ acc.panic THEN acc
        ELSE withValue(insertValue(r.ShardingKey, insertNames, insertValues))

\* a rewriting that renames the table of every qualified term
replaceOrderByEveryTable(orderBy, oldName, newName) ==
    [i \in 1..Len(orderBy) |->
        IF orderBy[i].qualified THEN [orderBy[i] EXCEPT !.table = newName]
        ELSE orderBy[i]]

\* replaceOrderByTableName: the terms that are references qualified with
\* the old table name are qualified with the new one
replaceOrderByTableName(orderBy, oldName, newName) ==
    [i \in 1..Len(orderBy) |->
        IF orderBy[i].qualified /\ orderBy[i].table = oldName
        THEN [orderBy[i] EXCEPT !.table = newName]
        ELSE orderBy[i]]

\* the shard rendering of a Select, Update or Delete: the table replaced,
\* and for a Select the ORDER BY terms rewritten
shardStatement(stmt, oldName, newName) ==
    IF stmt.type = "SELECT"
    THEN [stmt EXCEPT !.table = newName,
                      !.orderBy = replaceOrderByTableName(@, oldName, newName)]
    ELSE [stmt EXCEPT !.table = newName]

\* a resolve that never looks at the hint
hasNoShardingHintIgnored(stmt) == FALSE

\* stmt.Hint != nil && stmt.Hint.Value == "nosharding"
hasNoShardingHint(stmt) == stmt.hint = "nosharding"

resolve(cfgs, query, gen) ==
    LET pass == [ftQuery |-> query, stQuery |-> query, tableName |-> NoTable,
                 stmtType |-> "", err |-> Nil, gen |-> gen, panic |-> FALSE]
        stmt == query.stmt
        tableName == stmt.table
        named == [pass EXCEPT !.tableName = tableName, !.stmtType = stmtTypeOf(stmt)]
        inserted(acc) ==
            IF acc.panic THEN [named EXCEPT !.panic = TRUE, !.gen = acc.gen]
            ELSE IF acc.err # Nil
            THEN [named EXCEPT !.err = acc.err, !.gen = acc.gen]
            ELSE [named EXCEPT
                    !.ftQuery = String([stmt EXCEPT !.cols = acc.cols, !.rows = acc.rows]),
                    !.stQuery = String([stmt EXCEPT !.cols = acc.cols, !.rows = acc.rows,
                                                    !.table = tableName \o acc.suffix]),
                    !.gen = acc.gen]
        suffixed(sub) ==
            IF sub.err # Nil THEN [named EXCEPT !.err = sub.err]
            ELSE [named EXCEPT
                    !.ftQuery = String(stmt),
                    !.stQuery = String(shardStatement(stmt, tableName, tableName \o sub.suffix))]
        filtered(r, nv) ==
            IF nv.err # Nil THEN [named EXCEPT !.err = nv.err]
            ELSE suffixed(getSuffix(nv.value, nv.id, nv.keyFind, r))
    IN  IF DOMAIN cfgs = {} THEN pass
        ELSE IF ~query.parses THEN pass
        ELSE IF stmt.type = "SELECT" /\ ~stmt.fromTable THEN pass
        ELSE IF stmt.type = "SELECT" /\ hasNoShardingHint(stmt) THEN pass
        ELSE IF stmt.type \notin {"SELECT", "INSERT", "UPDATE", "DELETE"}
        THEN [pass EXCEPT !.err = ErrNotImplemented]
        ELSE IF tableName \notin DOMAIN cfgs THEN named
        ELSE IF stmt.type = "INSERT"
        THEN inserted(insertRows(cfgs[tableName], stmt.cols, 1,
                          [suffix |-> <<>>, cols |-> stmt.cols, rows |-> stmt.rows,
                           gen |-> gen, err |-> Nil, panic |-> FALSE]))
        ELSE filtered(cfgs[tableName], nonInsertValue(cfgs[tableName].ShardingKey, stmt.cond))

(***************************************************************************)
(* Inputs                                                                  *)
(***************************************************************************)
Orders == <<"orders">>
Categories == <<"categories">>
DefaultPool == "db"

EmptyMap == [x \in {} |-> 0]

RawConfig(dw, n, pk, fn) ==
    [DoubleWrite |-> dw, ShardingKey |-> "user_id", NumberOfShards |-> n,
     tableFormat |-> 0, ShardingAlgorithm |-> "nil", ShardingSuffixs |-> "nil",
     ShardingAlgorithmByPrimaryKey |-> "nil", PrimaryKeyGenerator |-> pk,
     PrimaryKeyGeneratorFn |-> fn, seqTable |-> NoTable]

\* the configurations of the test suite (Snowflake, no-id custom generator,
\* PostgreSQL sequence), a 1024-shard Snowflake configuration, and
\* configurations compile rejects
ValidConfigs ==
    { RawConfig(TRUE, 4, PKSnowflake, "nil"),
      RawConfig(FALSE, 1024, PKSnowflake, "nil"),
      RawConfig(TRUE, 4, PKCustom, "zero"),
      RawConfig(FALSE, 12, PKPGSequence, "nil") }

InvalidConfigs ==
    { RawConfig(TRUE, 4, PKMySQLSequence, "nil"),
      RawConfig(TRUE, 4, PKCustom, "nil"),
      RawConfig(TRUE, 1025, PKSnowflake, "nil"),
      RawConfig(TRUE, 0, PKSnowflake, "nil") }

RawConfigs == ValidConfigs \cup InvalidConfigs

TableSets == { {Orders} }

ConnSetups ==
    { [read |-> EmptyMap, write |-> EmptyMap],
      [read |-> [t \in {Orders} |-> <<"replica1", "replica2">>],
       write |-> [t \in {Orders} |-> <<"source1">>]],
      [read |-> [t \in {Orders} |-> <<>>],
       write |-> [t \in {Orders} |-> <<>>]] }

Cmp(x, op, y) == [k |-> "cmp", X |-> x, Op |-> op, Y |-> y]
And(x, y) == [k |-> "AND", X |-> x, Y |-> y]
Or(x, y) == [k |-> "OR", X |-> x, Y |-> y]
Not(x) == [k |-> "NOT", X |-> x]
NoCondition == [k |-> "none"]

Statement(type, table, hint, cond, cols, rows) ==
    [type |-> type, table |-> table, fromTable |-> TRUE, hint |-> hint,
     cond |-> cond, cols |-> cols, rows |-> rows, orderBy |-> <<>>]

\* ORDER BY terms: a reference qualified with a table, and a bare column
QualifiedRef(table, column) == [qualified |-> TRUE, table |-> table, column |-> column]
Ident(column) == [qualified |-> FALSE, table |-> NoTable, column |-> column]
OrderBy(stmt, terms) == [stmt EXCEPT !.orderBy = terms]

Select(table, hint, cond) == Statement("SELECT", table, hint, cond, <<>>, <<>>)
Update(table, cond) == Statement("UPDATE", table, "", cond, <<>>, <<>>)
Delete(table, cond) == Statement("DELETE", table, "", cond, <<>>, <<>>)
Insert(table, cols, rows) == Statement("INSERT", table, "", NoCondition, cols, rows)

\* the text of a statement as a caller writes it; parses = FALSE is a text
\* the parser rejects
Text(stmt) == [src |-> "input", parses |-> TRUE, stmt |-> stmt]
Unparseable(stmt) == [src |-> "input", parses |-> FALSE, stmt |-> stmt]

user_id(y) == Cmp("user_id", "=", y)
idEq(y) == Cmp("id", "=", y)
productIsIPad == Cmp("product", "=", StringLit(<<"i", "P", "a", "d">>))

Row(key) == <<BindExpr(GoInt64(key)), BindExpr(GoString(<<"i", "P", "a", "d">>))>>
KeyColumns == <<"user_id", "product">>

\* the statements the connection pool is driven with
RouterStatements ==
    { Select(Orders, "", user_id(BindExpr(GoInt64(101)))),
      Select(Orders, "", productIsIPad),
      Select(Orders, "nosharding", user_id(BindExpr(GoInt64(101)))),
      Select(Orders, "nosharding", productIsIPad),
      Select(Categories, "", user_id(BindExpr(GoInt(1)))),
      Select(Categories, "", productIsIPad),
      Update(Orders, user_id(NumberLit(<<"1", "0", "0">>))),
      Insert(Orders, KeyColumns, <<Row(4092)>>),
      Insert(Orders, KeyColumns, <<Row(4092), Row(4093)>>),
      Insert(Orders, <<"id", "product">>, <<Row(1)>>) }

RouterQueries ==
    { Text(st) : st \in RouterStatements }
    \cup { Unparseable(Select(Orders, "", user_id(BindExpr(GoInt64(101))))) }

(***************************************************************************)
(* The state machine                                                       *)
(***************************************************************************)
\* a gorm.ConnPool: a pool of the driver, or the wrapper
\* &ConnPool{ConnPool: pool, sharding: s} around one
DriverPool(pool) == [kind |-> "driver", pool |-> pool]
Wrapper(pool) == [kind |-> "sharding.ConnPool", pool |-> pool]

ErrDB == "datastore error"
DBOutcomes == {Nil, ErrDB}

NoRes == [ftQuery |-> NoQuery, stQuery |-> NoQuery, tableName |-> NoTable,
          stmtType |-> "", err |-> Nil]

Res(r) == [ftQuery |-> r.ftQuery, stQuery |-> r.stQuery, tableName |-> r.tableName,
           stmtType |-> r.stmtType, err |-> r.err]

Gen == [seqs |-> seqs, nodes |-> snowflakeNodes, now |-> now, sent |-> <<>>]

\* the generators stay within the bounds of the model
GenWithinBounds(gen) ==
    /\ \A n \in DOMAIN gen.seqs : gen.seqs[n] <= MaxSeq
    /\ \A i \in DOMAIN gen.nodes : gen.nodes[i].step <= MaxStep

Init ==
    /\ registration \in [config : RawConfigs, tables : TableSets]
    /\ phase = "registered"
    /\ configs = EmptyMap
    /\ conns \in ConnSetups
    /\ querys = NoQuery
    /\ seqs = EmptyMap
    /\ snowflakeNodes = EmptyMap
    /\ now = 1
    /\ sent = <<>>
    /\ call = [op |-> "Register", query |-> NoQuery, res |-> NoRes, outs |-> <<>>,
               err |-> Nil, panic |-> FALSE]
    /\ ConnPool = DriverPool(NoPool)
    /\ statements = EmptyMap

\* a compile that stores the configuration and validates nothing
compileUnchecked(reg, last) ==
    [outcome |-> "ok", err |-> Nil, configs |-> [t \in reg.tables |-> reg.config]]

\* Sharding.compile, run by Initialize: the first loop stores _config for
\* every table; the second loop compiles each entry.  The closure compile
\* installs for PKPGSequence refers to the loop variable t, which after the
\* loop holds the table iterated last.
compile(reg, last) ==
    LET c == compileConfig(reg.config)
    IN  [outcome |-> c.outcome, err |-> c.err,
         configs |-> [t \in reg.tables |->
                         IF c.outcome = "ok" THEN [c.config EXCEPT !.seqTable = last]
                         ELSE reg.config]]

\* CREATE SEQUENCE IF NOT EXISTS for every table, when the generator is
\* PKPGSequence: compile runs it in the PKPGSequence branch, before the
\* checks that can reject such a configuration
createPostgreSQLSequenceKeyIfNotExist(reg, db) ==
    IF reg.config.PrimaryKeyGenerator = PKPGSequence
    THEN [n \in DOMAIN db \cup {pgSeqName(t) : t \in reg.tables} |->
             IF n \in DOMAIN db THEN db[n] ELSE 0]
    ELSE db

\* The body of Sharding.Initialize: the sequences, a fresh array of
\* snowflake nodes, then compile, which stores the raw configuration for
\* every table and then the compiled one.
runInitialize ==
    /\ \E last \in registration.tables :
         LET c == compile(registration, last)
         IN  /\ phase' = IF c.outcome = "ok" THEN "initialized" ELSE "failed"
             /\ configs' = c.configs
             /\ seqs' = createPostgreSQLSequenceKeyIfNotExist(registration, seqs)
             /\ call' = [op |-> "Initialize", query |-> call.query, res |-> NoRes,
                         outs |-> <<>>, err |-> c.err, panic |-> c.outcome = "panic"]
    /\ snowflakeNodes' = EmptyMap
    /\ sent' = <<>>
    /\ UNCHANGED <<registration, conns, querys, now, ConnPool, statements>>

\* db.Use(middleware): the first initialization of the Sharding value
Initialize ==
    /\ phase = "registered"
    /\ runInitialize

\* db.Use(middleware) on another database handle, with the Sharding value
\* that is already initialized
InitializeAgain ==
    /\ phase = "initialized"
    /\ runInitialize

\* a choice that takes the write connections for a Select and the read
\* connections for the other statements
GetReadWriteConnSwapped(pool, table, stmtType) ==
    IF table # NoTable /\ stmtType = "SELECT"
          /\ table \in DOMAIN conns.write /\ Len(conns.write[table]) > 0
    THEN {conns.write[table][i] : i \in 1..Len(conns.write[table])}
    ELSE IF table # NoTable /\ stmtType \in {"INSERT", "UPDATE", "DELETE"}
          /\ table \in DOMAIN conns.read /\ Len(conns.read[table]) > 0
    THEN {conns.read[table][i] : i \in 1..Len(conns.read[table])}
    ELSE {pool}

\* ConnPool.GetReadWriteConn: the pools the random choice can return
GetReadWriteConn(pool, table, stmtType) ==
    IF table # NoTable /\ stmtType = "SELECT"
          /\ table \in DOMAIN conns.read /\ Len(conns.read[table]) > 0
    THEN {conns.read[table][i] : i \in 1..Len(conns.read[table])}
    ELSE IF table # NoTable /\ stmtType \in {"INSERT", "UPDATE", "DELETE"}
          /\ table \in DOMAIN conns.write /\ Len(conns.write[table]) > 0
    THEN {conns.write[table][i] : i \in 1..Len(conns.write[table])}
    ELSE {pool}

Exec(conn, fn, text) == [conn |-> conn, fn |-> fn, text |-> text]

\* a double write of the shard rendering
doubleWriteShardRendering(pool, r) ==
    IF r.tableName # NoTable /\ r.tableName \in DOMAIN configs
          /\ configs[r.tableName].DoubleWrite
    THEN <<Exec(pool, "ExecContext", r.stQuery)>>
    ELSE <<>>

\* a double write that does not look the table up in the registry
doubleWriteUnchecked(pool, r) == <<Exec(pool, "ExecContext", r.ftQuery)>>

\* the double write of ExecContext and QueryContext
doubleWrite(pool, r) ==
    IF r.tableName # NoTable /\ r.tableName \in DOMAIN configs
          /\ configs[r.tableName].DoubleWrite
    THEN <<Exec(pool, "ExecContext", r.ftQuery)>>
    ELSE <<>>

\* what the datastore answers to the double write; its result is dropped
doubleWriteOutcomes(pool, r) ==
    IF doubleWrite(pool, r) = <<>> THEN { <<>> } ELSE { <<out>> : out \in DBOutcomes }

\* a Store of the logical-table rendering
lastQueryStoredFullTable(r) == r.ftQuery

\* pool.sharding.querys.Store("last_query", stQuery)
lastQueryStored(r) == r.stQuery

\* the empty string
EmptyText == [src |-> "empty"]

\* Sharding.LastQuery: the entry of the querys map, or "" when there is none
LastQuery == IF querys # NoQuery THEN querys ELSE EmptyText

\* ExecContext and QueryContext differ only in the method they finally call
execOrQuery(fn, pool, query) ==
    \E r \in {resolve(configs, query, Gen)} :
        /\ GenWithinBounds(r.gen)
        /\ seqs' = r.gen.seqs
        /\ snowflakeNodes' = r.gen.nodes
        /\ IF r.panic \/ r.err # Nil
           THEN /\ call' = [op |-> fn, query |-> query, res |-> Res(r), outs |-> <<>>,
                            err |-> r.err, panic |-> r.panic]
                /\ sent' = r.gen.sent
                /\ UNCHANGED querys
           ELSE /\ querys' = lastQueryStored(r)
                /\ \E cp \in GetReadWriteConn(pool, r.tableName, r.stmtType),
                      dw \in doubleWriteOutcomes(pool, r), out \in DBOutcomes :
                     /\ sent' = r.gen.sent \o doubleWrite(pool, r) \o <<Exec(cp, fn, r.stQuery)>>
                     /\ call' = [op |-> fn, query |-> query, res |-> Res(r),
                                 outs |-> Append(dw, out), err |-> out, panic |-> FALSE]
        /\ UNCHANGED <<registration, phase, configs, conns, now, ConnPool, statements>>

\* The pool is installed by Initialize (registerConnPool), so the entry
\* points run once the plugin is initialized.
ExecContext ==
    /\ phase = "initialized"
    /\ \E query \in RouterQueries : execOrQuery("ExecContext", DefaultPool, query)

QueryContext ==
    /\ phase = "initialized"
    /\ \E query \in RouterQueries : execOrQuery("QueryContext", DefaultPool, query)

\* QueryRowContext drops the error of resolve
QueryRowContext ==
    /\ phase = "initialized"
    /\ \E query \in RouterQueries :
      \E r \in {resolve(configs, query, Gen)} :
          /\ GenWithinBounds(r.gen)
          /\ seqs' = r.gen.seqs
          /\ snowflakeNodes' = r.gen.nodes
          /\ IF r.panic
             THEN /\ call' = [op |-> "QueryRowContext", query |-> query, res |-> Res(r),
                              outs |-> <<>>, err |-> Nil, panic |-> TRUE]
                  /\ sent' = r.gen.sent
                  /\ UNCHANGED querys
             ELSE /\ querys' = lastQueryStored(r)
                  /\ \E cp \in GetReadWriteConn(DefaultPool, r.tableName, r.stmtType),
                        out \in DBOutcomes :
                       /\ sent' = r.gen.sent \o <<Exec(cp, "QueryRowContext", r.stQuery)>>
                       /\ call' = [op |-> "QueryRowContext", query |-> query, res |-> Res(r),
                                   outs |-> <<out>>, err |-> out, panic |-> FALSE]
          /\ UNCHANGED <<registration, phase, configs, conns, now, ConnPool, statements>>

\* a millisecond passes
Tick ==
    /\ now < MaxNow
    /\ now' = now + 1
    /\ UNCHANGED <<registration, phase, configs, conns, querys, seqs, snowflakeNodes, sent, call,
                   ConnPool, statements>>

Next ==
    \/ Initialize
    \/ InitializeAgain
    \/ ExecContext
    \/ QueryContext
    \/ QueryRowContext
    \/ Tick

Spec == Init /\ [][Next]_vars

(***************************************************************************)
(* resolve on its own: the inputs are drawn by the initial state, and one  *)
(* call of resolve is applied to them after Initialize.                    *)
(***************************************************************************)
Ops == {"=", "<>", ">"}

KeyYs ==
    { BindExpr(GoInt64(101)), BindExpr(GoInt(0 - 1)), BindExpr(GoFloat64(1)),
      NumberLit(<<"1", "0", "0">>), StringLit(<<"a", "b", "c">>), CallExpr }

IdYs ==
    { BindExpr(GoInt64(4198400)), BindExpr(GoInt64(0)), BindExpr(GoInt64(0 - 1)),
      BindExpr(GoInt(5)), NumberLit(<<"4", "2", "0", "6", "5", "9", "2">>),
      NumberLit(<<"0">>), NumberLit(<<"1", "e", "2">>), StringLit(<<"a", "b", "c">>) }

Leaves ==
    { Cmp("user_id", op, y) : op \in Ops, y \in KeyYs }
    \cup { Cmp("id", op, y) : op \in Ops, y \in IdYs }
    \cup { productIsIPad }

EqLeaves == { l \in Leaves : l.Op = "=" }

Conditions ==
    {NoCondition} \cup Leaves
    \cup { And(x, y) : x \in Leaves, y \in Leaves }
    \cup { Or(x, y) : x \in EqLeaves, y \in EqLeaves }
    \cup { Not(x) : x \in Leaves }

\* integer sharding keys as int, int64 and decimal string
RouteKeys == (0 - 5)..6
RouteYs ==
    { BindExpr(GoInt(k)) : k \in RouteKeys }
    \cup { BindExpr(GoInt64(k)) : k \in RouteKeys }
    \cup { BindExpr(GoString(FormatInt(k))) : k \in RouteKeys }

\* value rows for a column list: the sharding key from KeyYs, any other
\* column a literal
RowsFor(cols) ==
    LET row(y) == [i \in 1..Len(cols) |->
                      IF cols[i] = "user_id" THEN y
                      ELSE IF cols[i] = "id" THEN NumberLit(<<"7">>)
                      ELSE StringLit(<<"i", "P", "a", "d">>)]
        rows == { row(y) : y \in KeyYs }
    IN  UNION { [1..n -> rows] : n \in 1..MaxRows }

InsertColumns == { <<"user_id">>, <<"id", "user_id">>, <<"product">>, <<"id", "product">> }

\* ORDER BY lists: the term gorm adds for First, a bare column, and a
\* list that also refers to another table
OrderBys ==
    { <<QualifiedRef(Orders, "id")>>,
      <<Ident("id")>>,
      <<QualifiedRef(Categories, "id"), Ident("product"), QualifiedRef(Orders, "id")>> }

ResolveStatements ==
    { Select(Orders, "", c) : c \in Conditions }
    \cup { Update(Orders, c) : c \in Conditions }
    \cup { Delete(Orders, c) : c \in Conditions }
    \cup { Select(Orders, "", user_id(y)) : y \in RouteYs }
    \cup { OrderBy(st, terms) :
              st \in { Select(Orders, "", user_id(BindExpr(GoInt64(101)))),
                       Select(Orders, "nosharding", user_id(BindExpr(GoInt64(101)))),
                       Update(Orders, user_id(BindExpr(GoInt64(101)))),
                       Delete(Orders, idEq(BindExpr(GoInt64(4198400)))) },
              terms \in OrderBys }
    \cup { Select(Orders, "nosharding", c) : c \in {NoCondition} \cup Leaves }
    \cup { Statement(type, Categories, "", c, <<"user_id">>, << <<NumberLit(<<"7">>)>> >>) :
              type \in {"SELECT", "INSERT", "UPDATE", "DELETE"}, c \in {NoCondition} \cup EqLeaves }
    \cup UNION { { Insert(Orders, cols, rows) : rows \in RowsFor(cols) } : cols \in InsertColumns }
    \cup { Insert(Orders, <<"user_id", "product">>, << <<NumberLit(<<"7">>)>> >>),
           Statement("OTHER", Orders, "", NoCondition, <<>>, <<>>),
           [Select(Orders, "", user_id(BindExpr(GoInt64(101)))) EXCEPT !.fromTable = FALSE] }

ResolveQueries ==
    { Text(st) : st \in ResolveStatements }
    \cup { Unparseable(Select(Orders, "", c)) : c \in {NoCondition} \cup EqLeaves }

\* a caller-supplied algorithm with its suffixes, and one whose suffixes
\* are left to compile although NumberOfShards is not set
CustomAlgorithmConfigs ==
    { [RawConfig(dw, 2, PKSnowflake, "nil") EXCEPT
          !.ShardingAlgorithm = "parity", !.ShardingSuffixs = "parity"] : dw \in BOOLEAN }
    \cup { [RawConfig(TRUE, 0, PKSnowflake, "nil") EXCEPT !.ShardingAlgorithm = "parity"] }

\* Register(config, tables...): every valid configuration for orders
\* alone, the configurations with a caller-supplied algorithm, and the
\* sequence generator for two tables in one call
SequenceConfig == RawConfig(FALSE, 12, PKPGSequence, "nil")

ResolveRegistrations ==
    [config : ValidConfigs \cup CustomAlgorithmConfigs, tables : TableSets]
    \cup { [config |-> SequenceConfig, tables |-> {Orders, Categories}] }

InitResolve ==
    /\ registration \in ResolveRegistrations
    /\ phase = "registered"
    /\ configs = EmptyMap
    /\ conns = [read |-> EmptyMap, write |-> EmptyMap]
    /\ querys = NoQuery
    /\ seqs = EmptyMap
    /\ snowflakeNodes = EmptyMap
    /\ now = 1
    /\ sent = <<>>
    /\ \E query \in ResolveQueries :
         call = [op |-> "Register", query |-> query, res |-> NoRes, outs |-> <<>>,
                 err |-> Nil, panic |-> FALSE]
    /\ ConnPool = DriverPool(NoPool)
    /\ statements = EmptyMap

Resolve ==
    /\ phase = "initialized"
    /\ call.op = "Initialize"
    /\ call.query # NoQuery
    /\ \E r \in {resolve(configs, call.query, Gen)} :
           /\ GenWithinBounds(r.gen)
           /\ seqs' = r.gen.seqs
           /\ snowflakeNodes' = r.gen.nodes
           /\ sent' = r.gen.sent
           /\ call' = [op |-> "resolve", query |-> call.query, res |-> Res(r),
                       outs |-> <<>>, err |-> r.err, panic |-> r.panic]
    /\ UNCHANGED <<registration, phase, configs, conns, querys, now, ConnPool, statements>>

NextResolve == Initialize \/ Resolve

SpecResolve == InitResolve /\ [][NextResolve]_vars

(***************************************************************************)
(* resolve with a caller-supplied generator that does not return the same  *)
(* kind of value for every row: the Inserts are drawn by the initial       *)
(* state.                                                                  *)
(***************************************************************************)
FirstOnlyConfig == RawConfig(FALSE, 4, PKCustom, "firstOnly")

FillQueries ==
    UNION { { Text(Insert(Orders, cols, rows)) : rows \in RowsFor(cols) } : cols \in InsertColumns }

InitFill ==
    /\ registration = [config |-> FirstOnlyConfig, tables |-> {Orders}]
    /\ phase = "registered"
    /\ configs = EmptyMap
    /\ conns = [read |-> EmptyMap, write |-> EmptyMap]
    /\ querys = NoQuery
    /\ seqs = EmptyMap
    /\ snowflakeNodes = EmptyMap
    /\ now = 1
    /\ sent = <<>>
    /\ \E query \in FillQueries :
         call = [op |-> "Register", query |-> query, res |-> NoRes, outs |-> <<>>,
                 err |-> Nil, panic |-> FALSE]
    /\ ConnPool = DriverPool(NoPool)
    /\ statements = EmptyMap

SpecFill == InitFill /\ [][NextResolve]_vars

(***************************************************************************)
(* AutoMigrate on its own: a registration is drawn by the initial state,   *)
(* Initialize compiles it, and AutoMigrate is applied to lists of models.  *)
(***************************************************************************)

MigrateConfigs ==
    RawConfigs \cup CustomAlgorithmConfigs \cup { RawConfig(FALSE, 4, PKSnowflake, "nil") }

InitMigrate ==
    /\ registration \in [config : MigrateConfigs, tables : { {Orders}, {Orders, Categories} }]
    /\ phase = "registered"
    /\ configs = EmptyMap
    /\ conns = [read |-> EmptyMap, write |-> EmptyMap]
    /\ querys = NoQuery
    /\ seqs = EmptyMap
    /\ snowflakeNodes = EmptyMap
    /\ now = 1
    /\ sent = <<>>
    /\ call = [op |-> "Register", query |-> NoQuery, res |-> NoRes, outs |-> <<>>,
               err |-> Nil, panic |-> FALSE]
    /\ ConnPool = DriverPool(NoPool)
    /\ statements = EmptyMap

\* a migration that hands every model to the wrapped migrator, whatever
\* DoubleWrite says
RECURSIVE migrateDstsKeepAll(_, _, _)
migrateDstsKeepAll(dst, i, acc) ==
    LET table == dst[i]
        withSuffixs(suffixs) ==
            IF Len(suffixs) = 0
            THEN [acc EXCEPT !.err = "sharding table suffixs is empty"]
            ELSE migrateDstsKeepAll(dst, i + 1,
                   [acc EXCEPT
                      !.tables = @ \o [j \in 1..Len(suffixs) |-> table \o suffixs[j]],
                      !.noShardingDsts = Append(@, table)])
    IN  IF i > Len(dst) \/ acc.err # Nil THEN acc
        ELSE IF table \in DOMAIN configs
        THEN withSuffixs(ShardingSuffixs(configs[table]))
        ELSE migrateDstsKeepAll(dst, i + 1, [acc EXCEPT !.noShardingDsts = Append(@, table)])

\* the tables ShardingMigrator.AutoMigrate has migrated once it has gone
\* through the models from position i on: for a registered table one per
\* suffix, in the order of ShardingSuffixs, and the model is kept for the
\* wrapped migrator when DoubleWrite is set; an unregistered model is kept
\* for the wrapped migrator.  acc = [tables, noShardingDsts, err].
RECURSIVE migrateDsts(_, _, _)
migrateDsts(dst, i, acc) ==
    LET table == dst[i]
        withSuffixs(suffixs) ==
            IF Len(suffixs) = 0
            THEN [acc EXCEPT !.err = "sharding table suffixs is empty"]
            ELSE migrateDsts(dst, i + 1,
                   [acc EXCEPT
                      !.tables = @ \o [j \in 1..Len(suffixs) |-> table \o suffixs[j]],
                      !.noShardingDsts = IF configs[table].DoubleWrite
                                         THEN Append(@, table) ELSE @])
    IN  IF i > Len(dst) \/ acc.err # Nil THEN acc
        ELSE IF table \in DOMAIN configs
        THEN withSuffixs(ShardingSuffixs(configs[table]))
        ELSE migrateDsts(dst, i + 1, [acc EXCEPT !.noShardingDsts = Append(@, table)])

\* the wrapped migrator's AutoMigrate of one model into the named table
Migration(table) ==
    Exec(DefaultPool, "AutoMigrate", [src |-> "model", parses |-> TRUE, table |-> table])

\* the models AutoMigrate is called with, by the name of their table
MigratedModels ==
    { <<Orders>>, <<Categories>>, <<Orders, Categories>>, <<Categories, Orders>>,
      <<Orders, Orders>> }

\* ShardingMigrator.AutoMigrate: sent lists the tables migrated, in order;
\* the models kept aside go to the wrapped migrator at the end.
AutoMigrate ==
    /\ phase = "initialized"
    /\ \E dst \in MigratedModels :
         \E m \in {migrateDsts(dst, 1, [tables |-> <<>>, noShardingDsts |-> <<>>, err |-> Nil])} :
            /\ sent' = [j \in 1..Len(m.tables) |-> Migration(m.tables[j])]
                        \o (IF m.err = Nil
                            THEN [j \in 1..Len(m.noShardingDsts) |->
                                     Migration(m.noShardingDsts[j])]
                            ELSE <<>>)
            /\ call' = [op |-> "AutoMigrate", query |-> [src |-> "models", dst |-> dst],
                        res |-> NoRes, outs |-> <<>>, err |-> m.err, panic |-> FALSE]
    /\ UNCHANGED <<registration, phase, configs, conns, querys, seqs, snowflakeNodes, now,
                   ConnPool, statements>>

NextMigrate == Initialize \/ AutoMigrate

SpecMigrate == InitMigrate /\ [][NextMigrate]_vars

(***************************************************************************)
(* The connection-switch callback on its own: gorm operations run          *)
(* concurrently, each on its own db.Statement with its own connection      *)
(* pool (the database handle's pool, or the pool of a transaction).        *)
(* switchConn is two steps, a write of Sharding.ConnPool and a read of it, *)
(* with no lock between them.                                              *)
(***************************************************************************)
Operations == 1..MaxOperations
Pools == {DefaultPool, "tx1", "tx2"}

\* the pool a statement's pool executes on: the wrapped pool of a wrapper
\* (GetReadWriteConn without read or write connections), or the pool itself
Underlying(cp) == cp.pool

InitSwitch ==
    /\ registration = [config |-> RawConfig(FALSE, 4, PKSnowflake, "nil"), tables |-> {Orders}]
    /\ phase = "registered"
    /\ configs = EmptyMap
    /\ conns = [read |-> EmptyMap, write |-> EmptyMap]
    /\ querys = NoQuery
    /\ seqs = EmptyMap
    /\ snowflakeNodes = EmptyMap
    /\ now = 1
    /\ sent = <<>>
    /\ call = [op |-> "Register", query |-> NoQuery, res |-> NoRes, outs |-> <<>>,
               err |-> Nil, panic |-> FALSE]
    /\ ConnPool = DriverPool(NoPool)
    /\ \E pool \in [Operations -> Pools], ignore \in [Operations -> BOOLEAN] :
          statements = [o \in Operations |->
                           [pool |-> pool[o], ignore |-> ignore[o], ConnPool |-> DriverPool(pool[o]),
                            pc |-> "callback", executedOn |-> NoPool]]

\* switchConn when the statement carries ShardingIgnoreStoreKey: nothing
switchConnIgnored(o) ==
    /\ phase = "initialized"
    /\ statements[o].pc = "callback"
    /\ statements[o].ignore
    /\ statements' = [statements EXCEPT ![o].pc = "switched"]
    /\ UNCHANGED <<registration, phase, configs, conns, querys, seqs, snowflakeNodes, now,
                   sent, call, ConnPool>>

\* s.ConnPool = &ConnPool{ConnPool: db.Statement.ConnPool, sharding: s}
switchConnStore(o) ==
    /\ phase = "initialized"
    /\ statements[o].pc = "callback"
    /\ ~statements[o].ignore
    /\ ConnPool' = Wrapper(Underlying(statements[o].ConnPool))
    /\ statements' = [statements EXCEPT ![o].pc = "stored"]
    /\ UNCHANGED <<registration, phase, configs, conns, querys, seqs, snowflakeNodes, now,
                   sent, call>>

\* db.Statement.ConnPool = s.ConnPool
switchConnLoad(o) ==
    /\ statements[o].pc = "stored"
    /\ statements' = [statements EXCEPT ![o].ConnPool = ConnPool, ![o].pc = "switched"]
    /\ UNCHANGED <<registration, phase, configs, conns, querys, seqs, snowflakeNodes, now,
                   sent, call, ConnPool>>

\* the operation executes its statement through db.Statement.ConnPool
Execute(o) ==
    /\ statements[o].pc = "switched"
    /\ statements' = [statements EXCEPT ![o].executedOn = Underlying(statements[o].ConnPool),
                                        ![o].pc = "done"]
    /\ UNCHANGED <<registration, phase, configs, conns, querys, seqs, snowflakeNodes, now,
                   sent, call, ConnPool>>

NextSwitch ==
    \/ Initialize
    \/ \E o \in Operations : switchConnIgnored(o)
    \/ \E o \in Operations : switchConnStore(o)
    \/ \E o \in Operations : switchConnLoad(o)
    \/ \E o \in Operations : Execute(o)

SpecSwitch == InitSwitch /\ [][NextSwitch]_vars

(***************************************************************************)
(* Properties                                                              *)
(***************************************************************************)
EntryPoints == {"ExecContext", "QueryContext", "QueryRowContext"}

\* the statements the pool itself executed in the latest call (the
\* generators' own statements left out)
PoolSent == SelectSeq(sent, LAMBDA e : e.fn # "Raw")

RECURSIVE CmpLeaves(_)
CmpLeaves(node) ==
    CASE node.k = "cmp" -> {node}
      [] node.k \in {"AND", "OR"} -> CmpLeaves(node.X) \cup CmpLeaves(node.Y)
      [] node.k = "NOT" -> CmpLeaves(node.X)
      [] OTHER -> {}

Stmt == call.query.stmt

\* the latest call resolved a statement of one of the given kinds that
\* names a registered table and is subject to sharding
OnRegistered(ops, types) ==
    /\ call.op \in ops
    /\ call.query.parses
    /\ Stmt.type \in types
    /\ Stmt.fromTable
    /\ ~(Stmt.type = "SELECT" /\ Stmt.hint = "nosharding")
    /\ Stmt.table \in DOMAIN configs

Filtered(ops) == OnRegistered(ops, {"SELECT", "UPDATE", "DELETE"})

KeyEqualities == { l \in CmpLeaves(Stmt.cond) :
                      l.X = configs[Stmt.table].ShardingKey /\ l.Op = "=" }
IdEqualities == { l \in CmpLeaves(Stmt.cond) : l.X = "id" /\ l.Op = "=" }

ShardTable(suffix) == Stmt.table \o suffix

\* C1: in each of ExecContext, QueryContext and QueryRowContext, when
\* resolve returns an error the pool executes no statement and the caller
\* receives that error.
C1_ErrorExecutesNothing ==
    (call.op \in EntryPoints /\ ~call.panic /\ call.res.err # Nil)
        => (PoolSent = <<>> /\ call.err = call.res.err)

\* C2: a Select, Update or Delete on a registered table whose filter has an
\* equality between the sharding key and a bound parameter or literal
\* resolves to <table> + ShardingAlgorithm(value), whatever the filter says
\* about id.  (Stated for filters with one such equality whose value the
\* algorithm accepts.)
C2_KeyEqualityDecides ==
    \A l \in Leaves :
        ( /\ Filtered({"resolve"})
          /\ KeyEqualities = {l}
          /\ keyValue(l.Y).err = Nil
          /\ ShardingAlgorithm(configs[Stmt.table], keyValue(l.Y).value).err = Nil )
        => ( /\ ~call.panic
             /\ call.res.err = Nil
             /\ call.res.stQuery.stmt.table =
                    ShardTable(ShardingAlgorithm(configs[Stmt.table], keyValue(l.Y).value).suffix) )

\* C3: an Insert into a registered table whose column list lacks the
\* sharding key fails with ErrMissingShardingKey, with or without an id
\* column, and the call executes nothing.
C3_InsertWithoutKeyRejected ==
    ( /\ OnRegistered(EntryPoints, {"INSERT"})
      /\ \A i \in 1..Len(Stmt.cols) : Stmt.cols[i] # configs[Stmt.table].ShardingKey )
    => (~call.panic /\ call.res.err = ErrMissingShardingKey /\ sent = <<>>)

\* the suffix of value row i of the Insert of the latest call
RowSuffix(i) ==
    LET iv == insertValue(configs[Stmt.table].ShardingKey, Stmt.cols, Stmt.rows[i])
    IN  IF iv.err # Nil THEN [suffix |-> <<>>, err |-> iv.err]
        ELSE ShardingAlgorithm(configs[Stmt.table], iv.value)

\* C4: a multi-row Insert whose rows resolve to different suffixes fails
\* with ErrInsertDiffSuffix before any rendering is produced and before
\* anything is sent to the datastore.
C4_DiffSuffixBeforeAnySend ==
    ( /\ OnRegistered(EntryPoints, {"INSERT"})
      /\ \A i \in 1..Len(Stmt.rows) : RowSuffix(i).err = Nil
      /\ \E i, j \in 1..Len(Stmt.rows) : RowSuffix(i).suffix # RowSuffix(j).suffix )
    => ( /\ ~call.panic
         /\ call.res.err = ErrInsertDiffSuffix
         /\ call.res.ftQuery = call.query /\ call.res.stQuery = call.query
         /\ sent = <<>> )

\* C5: a Select, Update or Delete on a registered table whose filter has no
\* `=` comparison on the sharding key and none on id fails with
\* ErrMissingShardingKey.
C5_NoEqualityMissingKey ==
    (Filtered({"resolve"}) /\ KeyEqualities = {} /\ IdEqualities = {})
        => (~call.panic /\ call.res.err = ErrMissingShardingKey)

C5_Witness ==
    /\ Filtered({"resolve"}) /\ KeyEqualities = {} /\ IdEqualities = {}
    /\ \E l \in CmpLeaves(Stmt.cond) : l.X = "user_id" /\ l.Op \in {"<>", ">"}
    /\ \E l \in CmpLeaves(Stmt.cond) : l.X = "id" /\ l.Op \in {"<>", ">"}
    /\ call.res.err = ErrMissingShardingKey

\* the integer an id comparison is given, as a literal or a bound argument
IsIntegerId(y) ==
    \/ y.e = "NumberLit" /\ Atoi(y.Value).ok
    \/ y.e = "BindExpr" /\ y.arg.t \in {"int", "int64"}
IntegerId(y) == IF y.e = "NumberLit" THEN Atoi(y.Value).v ELSE y.arg.v

\* C6: with a ShardingAlgorithmByPrimaryKey, a filter with an `=` on id
\* with an integer value and no equality on the sharding key resolves to
\* <table> + ShardingAlgorithmByPrimaryKey(id), for every integer id.
C6_IdEqualityDecides ==
    \A l \in Leaves :
        ( /\ Filtered({"resolve"})
          /\ configs[Stmt.table].ShardingAlgorithmByPrimaryKey # "nil"
          /\ KeyEqualities = {}
          /\ IdEqualities = {l}
          /\ IsIntegerId(l.Y) )
        => ( /\ ~call.panic
             /\ call.res.err = Nil
             /\ call.res.stQuery.stmt.table =
                    ShardTable(ShardingAlgorithmByPrimaryKey(configs[Stmt.table], IntegerId(l.Y))) )

\* C7: a text that does not parse, or a statement on a table that is not
\* registered, is resolved without error to renderings identical to the
\* input, and the pool executes that text once, with no double write.
C7_Unsharded ==
    ( /\ call.op \in EntryPoints
      /\ \/ ~call.query.parses
         \/ /\ Stmt.type \in {"SELECT", "INSERT", "UPDATE", "DELETE"}
            /\ Stmt.table \notin DOMAIN configs )
    => ( /\ ~call.panic
         /\ call.res.err = Nil
         /\ call.res.ftQuery = call.query /\ call.res.stQuery = call.query
         /\ Len(sent) = 1 /\ sent[1].text = call.query /\ sent[1].fn = call.op )

C7_Witness ==
    /\ call.op = "ExecContext"
    /\ call.query.parses
    /\ Stmt.table = Categories
    /\ \E l \in CmpLeaves(Stmt.cond) : l.X = "user_id" /\ l.Op = "="
    /\ configs[Orders].DoubleWrite
    /\ sent = <<Exec(DefaultPool, "ExecContext", call.query)>>

\* C8: a Select with the nosharding hint on a registered table is resolved
\* without error to renderings identical to the input, whatever its
\* filter, and is executed as written, once, on the wrapped pool.
C8_NoShardingHint ==
    ( /\ call.op \in EntryPoints
      /\ call.query.parses
      /\ Stmt.type = "SELECT" /\ Stmt.hint = "nosharding"
      /\ Stmt.table \in DOMAIN configs )
    => ( /\ ~call.panic
         /\ call.res.err = Nil
         /\ call.res.ftQuery = call.query /\ call.res.stQuery = call.query
         /\ sent = <<Exec(DefaultPool, call.op, call.query)>> )

C8_Witness ==
    /\ call.op = "QueryContext"
    /\ Stmt.type = "SELECT" /\ Stmt.hint = "nosharding"
    /\ Stmt.table = Orders /\ Orders \in DOMAIN configs
    /\ configs[Orders].DoubleWrite
    /\ Orders \in DOMAIN conns.read
    /\ KeyEqualities # {}
    /\ sent = <<Exec(DefaultPool, "QueryContext", call.query)>>

\* the Go value k + n in the form of the value k
PlusShards(value, n) ==
    IF value.t = "string" THEN GoString(FormatInt(Atoi(value.s).v + n))
    ELSE [value EXCEPT !.v = @ + n]

\* C9: under the default algorithm with NumberOfShards = N, the suffix for
\* an integer k (as int, int64 or decimal string) is the suffix for k + N.
C9_SuffixPeriodic ==
    \A y \in RouteYs :
        ( /\ Filtered({"resolve"})
          /\ Stmt.cond = user_id(y)
          /\ configs[Stmt.table].ShardingAlgorithm = "default" )
        => ( /\ call.res.err = Nil
             /\ call.res.stQuery.stmt.table =
                    ShardTable(ShardingAlgorithm(configs[Stmt.table],
                                   PlusShards(y.arg, configs[Stmt.table].NumberOfShards)).suffix) )

\* the table a Select with the given filter resolves to in this state
ResolvedTable(cond) ==
    LET r == resolve(configs, Text(Select(Stmt.table, "", cond)), Gen)
    IN  IF r.err = Nil /\ ~r.panic THEN r.stQuery.stmt.table ELSE <<"error", r.err>>

\* the latest call was an Insert whose id column resolve filled in
AutoFilled ==
    /\ OnRegistered(EntryPoints, {"INSERT"})
    /\ ~call.panic /\ call.res.err = Nil
    /\ \A i \in 1..Len(Stmt.cols) : Stmt.cols[i] # "id"
    /\ call.res.stQuery.stmt.cols = Append(Stmt.cols, "id")

\* C10: under the default algorithms with Snowflake keys and at most 1024
\* shards, when an Insert with sharding key k is filled with id g, a filter
\* `id = g` resolves to the same shard as a filter `<key> = k`.
C10_IdRoutesLikeKey ==
    ( /\ AutoFilled
      /\ configs[Stmt.table].PrimaryKeyGenerator = PKSnowflake
      /\ configs[Stmt.table].ShardingAlgorithm = "default"
      /\ configs[Stmt.table].ShardingAlgorithmByPrimaryKey = "default"
      /\ configs[Stmt.table].NumberOfShards <= MaxSnowflakeShards )
    => \A i \in 1..Len(Stmt.rows) :
          LET filled == call.res.stQuery.stmt.rows[i]
              g == filled[Len(filled)]
              k == Stmt.rows[i][CHOOSE j \in 1..Len(Stmt.cols) : Stmt.cols[j] = "user_id"]
          IN  /\ ResolvedTable(idEq(g)) = ResolvedTable(user_id(k))
              /\ ResolvedTable(idEq(BindExpr(GoInt64(Atoi(g.Value).v)))) = call.res.stQuery.stmt.table
              /\ ResolvedTable(user_id(k)) = call.res.stQuery.stmt.table

C10_Witness ==
    /\ AutoFilled
    /\ configs[Stmt.table].PrimaryKeyGenerator = PKSnowflake
    /\ configs[Stmt.table].NumberOfShards = MaxSnowflakeShards
    /\ call.res.stQuery.stmt.table = Orders \o <<"_", "1", "0", "2", "0">>
    /\ now > 1

\* the Insert of the latest call names an id column
SuppliesId == \E j \in 1..Len(Stmt.cols) : Stmt.cols[j] = "id"

\* the generators are as Initialize left them: no sequence has advanced,
\* no snowflake node has generated, nothing was asked of the datastore
GeneratorsUntouched ==
    /\ snowflakeNodes = EmptyMap
    /\ \A n \in DOMAIN seqs : seqs[n] = 0
    /\ sent = <<>>

\* C11: resolving an Insert that supplies an id column does not invoke the
\* primary-key generator: the sequence counters and the snowflake nodes
\* stay as they were, and the rendered column and value lists are those of
\* the statement.
C11_SuppliedIdSkipsGenerator ==
    (OnRegistered({"resolve"}, {"INSERT"}) /\ SuppliesId)
        => ( /\ GeneratorsUntouched
             /\ (call.res.err = Nil /\ ~call.panic)
                    => ( /\ call.res.stQuery.stmt.cols = Stmt.cols
                         /\ call.res.stQuery.stmt.rows = Stmt.rows ) )

\* the latest call resolved, without error, an Insert on a registered
\* table that names no id column
InsertWithoutId ==
    /\ OnRegistered({"resolve"}, {"INSERT"})
    /\ ~SuppliesId
    /\ ~call.panic /\ call.res.err = Nil

\* the id the table's generator hands out for value row i of that Insert,
\* the generators being fresh before the call: the sequence counts from 1,
\* and a snowflake id is made of the clock, the node and the step
GeneratedId(i) ==
    CASE configs[Stmt.table].PrimaryKeyGenerator = PKPGSequence -> i
      [] configs[Stmt.table].PrimaryKeyGenerator = PKSnowflake ->
             now * (2 ^ TimeShift)
               + (CHOOSE n \in DOMAIN snowflakeNodes : TRUE) * (2 ^ NodeShift) + (i - 1)
      [] OTHER -> 0

\* C12: for an Insert on a registered table without an id column, when the
\* generator returns 0 both renderings keep the columns and values of the
\* statement; otherwise the columns gain one id column, at the end, and
\* every value row gains the value generated for it.
C12_FillsGeneratedId ==
    InsertWithoutId =>
        \A q \in {call.res.ftQuery, call.res.stQuery} :
            IF configs[Stmt.table].PrimaryKeyGenerator = PKCustom
            THEN q.stmt.cols = Stmt.cols /\ q.stmt.rows = Stmt.rows
            ELSE /\ q.stmt.cols = Append(Stmt.cols, "id")
                 /\ Len(q.stmt.rows) = Len(Stmt.rows)
                 /\ \A i \in 1..Len(Stmt.rows) :
                        /\ GeneratedId(i) # 0
                        /\ q.stmt.rows[i] =
                               Append(Stmt.rows[i], NumberLit(FormatInt(GeneratedId(i))))

C12_Witness ==
    /\ InsertWithoutId
    /\ configs[Stmt.table].PrimaryKeyGenerator = PKPGSequence
    /\ Len(Stmt.rows) = 2
    /\ call.res.stQuery.stmt.cols = <<"user_id", "id">>
    /\ call.res.stQuery.stmt.rows[2][2] = NumberLit(<<"2">>)

\* C13: with the sequence generator, filling the rows of an Insert on
\* table T advances the counter gorm_sharding_<T>_id_seq by one for each
\* row, fills the new values as the rows' ids, and leaves the counter of
\* every other registered table where it was.
C13_SequenceOfTable ==
    (InsertWithoutId /\ configs[Stmt.table].PrimaryKeyGenerator = PKPGSequence)
        => ( /\ seqs[pgSeqName(Stmt.table)] = Len(Stmt.rows)
             /\ \A n \in DOMAIN seqs \ {pgSeqName(Stmt.table)} : seqs[n] = 0
             /\ \A i \in 1..Len(Stmt.rows) :
                    call.res.stQuery.stmt.rows[i] =
                        Append(Stmt.rows[i], NumberLit(FormatInt(i))) )

\* the latest call was an ExecContext that resolved a statement on a table
\* registered with DoubleWrite
DoubleWritten ==
    /\ call.op = "ExecContext"
    /\ ~call.panic /\ call.res.err = Nil
    /\ call.res.tableName \in DOMAIN configs
    /\ configs[call.res.tableName].DoubleWrite

\* C14: in ExecContext with DoubleWrite, the logical-table rendering is
\* executed on the default pool first, the shard rendering after it, and
\* the caller gets the outcome of the shard rendering whatever the outcome
\* of the logical-table execution.
C14_DoubleWriteThenShard ==
    DoubleWritten =>
        ( /\ Len(PoolSent) = 2
          /\ PoolSent[1] = Exec(DefaultPool, "ExecContext", call.res.ftQuery)
          /\ PoolSent[2].fn = "ExecContext"
          /\ PoolSent[2].text = call.res.stQuery
          /\ call.res.stQuery # call.res.ftQuery
          /\ Len(call.outs) = 2
          /\ call.err = call.outs[2] )

C14_Witness ==
    /\ DoubleWritten
    /\ Stmt.type = "UPDATE"
    /\ call.outs = <<ErrDB, Nil>>
    /\ call.err = Nil
    /\ PoolSent[2].conn = "source1"

\* the latest call resolved, without error, a statement for which resolve
\* reported a table
ResolvedOnTable ==
    /\ call.op \in EntryPoints
    /\ ~call.panic /\ call.res.err = Nil
    /\ call.res.tableName # NoTable

\* the connections configured for a table in one of the two maps
Configured(map, table) ==
    IF table \in DOMAIN map THEN {map[table][i] : i \in 1..Len(map[table])} ELSE {}

\* the connection the statement itself (the last one sent) was executed on
FinalConn == PoolSent[Len(PoolSent)].conn

\* C15: the statement of a resolved call on table T is executed on one of
\* T's read connections when it is a Select and on one of T's write
\* connections when it is an Insert, Update or Delete; on the default pool
\* exactly when that set is empty or not configured; a Select never on a
\* write connection, another statement never on a read connection.
C15_ReadWriteSplit ==
    ResolvedOnTable =>
        LET reads == Configured(conns.read, call.res.tableName)
            writes == Configured(conns.write, call.res.tableName)
            relevant == IF Stmt.type = "SELECT" THEN reads ELSE writes
        IN  /\ PoolSent # <<>>
            /\ PoolSent[Len(PoolSent)].text = call.res.stQuery
            /\ relevant # {} => FinalConn \in relevant
            /\ relevant = {} <=> FinalConn = DefaultPool
            /\ Stmt.type = "SELECT" => FinalConn \notin writes
            /\ Stmt.type # "SELECT" => FinalConn \notin reads

C15_Witness ==
    /\ ResolvedOnTable
    /\ call.op = "QueryContext"
    /\ Stmt.type = "SELECT"
    /\ Configured(conns.write, Stmt.table) = {"source1"}
    /\ FinalConn = "replica2"

\* the tables the latest AutoMigrate migrated
Migrated == { sent[j].text.table : j \in 1..Len(sent) }

\* the suffixes ShardingSuffixs returns for a registered table
SuffixesOf(table) ==
    LET suffixs == ShardingSuffixs(configs[table])
    IN  { suffixs[j] : j \in 1..Len(suffixs) }

\* the tables one model stands for: <table><suffix> for every suffix, and
\* the logical table when DoubleWrite is set; its own table when the table
\* is not registered
TablesOf(table) ==
    IF table \in DOMAIN configs
    THEN { table \o suffix : suffix \in SuffixesOf(table) }
         \cup (IF configs[table].DoubleWrite THEN {table} ELSE {})
    ELSE {table}

Rejected(c) ==
    \/ c.PrimaryKeyGenerator \notin {PKSnowflake, PKPGSequence, PKCustom}
    \/ c.PrimaryKeyGenerator = PKCustom /\ c.PrimaryKeyGeneratorFn = "nil"
    \/ c.PrimaryKeyGenerator = PKSnowflake /\ c.NumberOfShards > MaxSnowflakeShards
    \/ c.ShardingAlgorithm = "nil" /\ c.NumberOfShards = 0

RECURSIVE TopLevel(_)
TopLevel(node) ==
    CASE node.k = "AND" -> TopLevel(node.X) \cup TopLevel(node.Y)
      [] node.k \in {"cmp", "OR", "NOT"} -> {node}
      [] OTHER -> {}

\* C19: a Select, Update or Delete on a registered table whose sharding-key
\* equalities all sit under OR or NOT, none being a top-level condition of
\* the filter (and which has no equality on id), fails with
\* ErrMissingShardingKey.
C19_OnlyTopLevelKeySelects ==
    ( /\ Filtered({"resolve"})
      /\ KeyEqualities # {}
      /\ KeyEqualities \cap TopLevel(Stmt.cond) = {}
      /\ IdEqualities = {} )
        => (~call.panic /\ call.res.err = ErrMissingShardingKey)

\* C20: once the first initialization has completed, no step writes the
\* registry map or replaces a slot of the snowflake generator array: the
\* registry stays what it was and a generator that has issued ids is still
\* the generator of its slot, its clock and step never going back.
C20_InitializedStateFrozen ==
    [][ phase = "initialized"
          => /\ configs' = configs
             /\ \A i \in DOMAIN snowflakeNodes :
                    /\ i \in DOMAIN snowflakeNodes'
                    /\ snowflakeNodes'[i].time >= snowflakeNodes[i].time ]_vars

\* the errors of resolve that come from the configuration, not from the
\* statement
ConfigurationErrors == {ErrNoAlgorithmByPK, ErrSuffixNotListed}

\* C21: once initialization has succeeded, no resolve fails because of the
\* configuration: neither for an unset ShardingAlgorithmByPrimaryKey nor
\* for a suffix missing from the enumeration of ShardingSuffixs.
C21_NoConfigurationErrorAtQueryTime ==
    (phase = "initialized" /\ call.op = "resolve")
        => call.res.err \notin ConfigurationErrors

\* a suffix without any digit
NonNumeric(suffix) == suffix # <<>> /\ \A i \in 1..Len(suffix) : ~IsDigit(suffix[i])

\* C22: for an Insert whose rows all compute one suffix that is not numeric
\* and is in the list ShardingSuffixs returns, resolve does not fail and
\* the index handed to the generator (the snowflake node that generates)
\* is the position of the suffix in that list.
C22_SuffixPositionIsIndex ==
    \A suffix \in { <<"_", "e">>, <<"_", "o">> } :
        ( /\ OnRegistered({"resolve"}, {"INSERT"})
          /\ \A i \in 1..Len(Stmt.rows) :
                 RowSuffix(i).err = Nil /\ RowSuffix(i).suffix = suffix
          /\ NonNumeric(suffix)
          /\ suffix \in SuffixesOf(Stmt.table) )
        => ( /\ ~call.panic
             /\ call.res.err = Nil
             /\ DOMAIN snowflakeNodes
                    = {SlicesIndex(ShardingSuffixs(configs[Stmt.table]), suffix)} )

\* the errors the visitor of nonInsertValue returns for an id equality
IdErrors == {ErrInvalidID, ErrIDNotInt64, ErrParseInt}

\* C23: for a Select, Update or Delete on a registered table whose filter
\* has one id equality and no sharding-key equality, resolve fails with
\* ErrInvalidID exactly when the value of the id equality is not an
\* integer, and an integer value gives no error about the id.
C23_InvalidIDExactly ==
    \A l \in Leaves :
        ( /\ Filtered({"resolve"})
          /\ KeyEqualities = {}
          /\ IdEqualities = {l} )
        => ( /\ call.res.err = ErrInvalidID <=> ~IsIntegerId(l.Y)
             /\ IsIntegerId(l.Y) => call.res.err \notin IdErrors )

\* an expression that is neither a bound parameter nor a string or numeric
\* literal
Unsupported(expr) == expr.e \notin {"BindExpr", "StringLit", "NumberLit"}

\* the expression bound to the sharding key in value row i of the Insert
KeyExpr(i) ==
    Stmt.rows[i][CHOOSE j \in 1..Len(Stmt.cols) :
                    /\ Stmt.cols[j] = configs[Stmt.table].ShardingKey
                    /\ \A k \in 1..(j - 1) : Stmt.cols[k] # Stmt.cols[j]]

\* the latest resolve rewrote nothing: both renderings are the text given
NotRouted == call.res.ftQuery = call.query /\ call.res.stQuery = call.query

Resolved ==
    /\ OnRegistered({"resolve"}, {"SELECT", "INSERT", "UPDATE", "DELETE"})
    /\ ~call.panic /\ call.res.err = Nil

\* the ORDER BY terms of the shard rendering: in a Select, the references
\* qualified with the table name carry the shard table name
ShardOrderBy(orderBy, shardTable) ==
    [i \in 1..Len(orderBy) |->
        IF Stmt.type = "SELECT" /\ orderBy[i].qualified /\ orderBy[i].table = Stmt.table
        THEN QualifiedRef(shardTable, orderBy[i].column)
        ELSE orderBy[i]]

\* C25: for every statement on a registered table that resolve rewrites
\* without error, the logical-table rendering names the table of the
\* statement and keeps its hint, filter and ORDER BY; the shard rendering
\* names that table followed by a suffix; and the shard rendering is the
\* logical-table rendering with the table replaced (columns, value rows
\* and filled ids the same) and, in a Select, the ORDER BY references
\* qualified with the table qualified with the shard table instead.
C25_RenderingsDifferInTableOnly ==
    Resolved =>
        LET ft == call.res.ftQuery.stmt
            st == call.res.stQuery.stmt
        IN  /\ ft.table = Stmt.table
            /\ ft = [Stmt EXCEPT !.cols = ft.cols, !.rows = ft.rows]
            /\ Len(st.table) > Len(Stmt.table)
            /\ SubSeq(st.table, 1, Len(Stmt.table)) = Stmt.table
            /\ st = [ft EXCEPT !.table = st.table,
                               !.orderBy = ShardOrderBy(ft.orderBy, st.table)]

C25_Witness ==
    /\ Resolved
    /\ Stmt.type = "SELECT"
    /\ Stmt.orderBy = <<QualifiedRef(Categories, "id"), Ident("product"),
                        QualifiedRef(Orders, "id")>>
    /\ call.res.ftQuery.stmt.orderBy = Stmt.orderBy
    /\ call.res.stQuery.stmt.orderBy[1] = QualifiedRef(Categories, "id")
    /\ call.res.stQuery.stmt.orderBy[3].table # Orders

\* C26: whatever the interleaving of the operations, each statement is
\* given a wrapper around its own pool, and an operation that has executed
\* has executed on the pool its statement carried.
C26_OwnPoolWrapped ==
    \A o \in DOMAIN statements :
        /\ (statements[o].pc \in {"switched", "done"} /\ ~statements[o].ignore)
               => statements[o].ConnPool = Wrapper(statements[o].pool)
        /\ statements[o].pc = "done" => statements[o].executedOn = statements[o].pool

\* C27: resolving an Insert on a registered table never makes the
\* generator index outside its array (which panics), and every snowflake
\* node that has generated is one of the slots 0..NumberOfShards-1, within
\* the 1024 slots.
C27_GeneratorIndexInRange ==
    OnRegistered({"resolve"}, {"INSERT"})
        => ( /\ ~call.panic
             /\ \A i \in DOMAIN snowflakeNodes :
                    /\ i \in 0..(configs[Stmt.table].NumberOfShards - 1)
                    /\ i \in 0..(SnowflakeNodeCount - 1) )

\* C28: a resolve that returns an error leaves the generators as they
\* were: no sequence has advanced, no snowflake node has generated, and
\* nothing was asked of the datastore.
C28_ErrorLeavesGenerators ==
    (call.op = "resolve" /\ ~call.panic /\ call.res.err # Nil) => GeneratorsUntouched

\* C29: in both renderings of an Insert that resolve returns without
\* error, every value row has as many values as the column list has
\* columns, whatever the generator returns for the successive rows.
C29_RowsMatchColumns ==
    ( /\ OnRegistered({"resolve"}, {"INSERT"})
      /\ ~call.panic /\ call.res.err = Nil )
        => \A q \in {call.res.ftQuery, call.res.stQuery} :
              \A i \in 1..Len(q.stmt.rows) : Len(q.stmt.rows[i]) = Len(q.stmt.cols)

\* C30: a Select on a table registered with DoubleWrite, resolved without
\* error through ExecContext or QueryContext, executes one statement, the
\* shard rendering, and nothing on the logical table.
C30_SelectNotDoubleWritten ==
    ( /\ OnRegistered({"ExecContext", "QueryContext"}, {"SELECT"})
      /\ configs[Stmt.table].DoubleWrite
      /\ ~call.panic /\ call.res.err = Nil )
        => ( /\ Len(PoolSent) = 1
             /\ PoolSent[1].text = call.res.stQuery
             /\ \A j \in 1..Len(PoolSent) : PoolSent[j].text.stmt.table # Stmt.table )

====
